---- MODULE Spec2Model ----
(***************************************************************************)
(* The git-lfs transfer session of tanker: transfer / handle /             *)
(* watchProgress (src/version.go), Comms (src/unnamed/part_001) and the    *)
(* way the storage backends (src/storage/util.go, src/unnamed/part_000)    *)
(* observe the context while they copy.                                    *)
(*                                                                         *)
(* The handler loop is one process (pc).  Every Upload/Download starts a   *)
(* watchProgress goroutine and, inside progress.NewTicker, a ticker        *)
(* goroutine; obs[i] holds both for the i-th inbound line.  The handler    *)
(* only signals cancel(), it does not wait for them.                       *)
(***************************************************************************)
EXTENDS Integers, Sequences, FiniteSets, TLC

\* ---- bounds -------------------------------------------------------------
MaxLines == 2      \* inbound lines before the input is exhausted
MaxSize  == 2      \* largest object size, in chunks
MaxTicks == 2      \* samples the tickers of a session take

Backends == {"gs", "swift", "ftp"}
Reqs     == 1..MaxLines

VARIABLES
  pc,       \* position of transfer/handle
  result,   \* what transfer returned: "none" while running, "nil", "err"
  cause,    \* why transfer returned
  conf,     \* conf.BaseURL prefix and validity of the backend configuration
  backend,  \* the backend NewStorage selected
  nread,    \* inbound lines consumed by Comms.Input
  msg,      \* the message handle is working on
  ctxDone,  \* the session context (ctx) is cancelled
  outOK,    \* the outbound pipe still accepts writes
  out,      \* the records handed to the encoder, in order
  cur,      \* the storage call in flight
  obs,      \* per inbound line: its ticker and watchProgress goroutines
  ticks,    \* samples taken so far
  hist,     \* per inbound line: what happened while it was handled
  call      \* a call of the storage package taken by itself: arguments and result

\* The variables of the session, and all of them.
session == <<pc, result, cause, conf, backend, nread, msg, ctxDone, outOK, out, cur, obs, ticks, hist>>
vars == <<pc, result, cause, conf, backend, nread, msg, ctxDone, outOK, out, cur, obs, ticks, hist, call>>

\* No call of the storage package is looked at by itself.
NoCall == [fn |-> "none"]

NoMsg  == [kind |-> "none", oid |-> 0, size |-> 0]
NoCur  == [op |-> "none", phase |-> "none", flen |-> 0, err |-> "none", closeErr |-> FALSE]
NoObs  == [tk |-> "none", w |-> "none", n |-> 0, size |-> 0, pn |-> 0, p |-> 0,
           last |-> 0, wcancel |-> FALSE]
NoHist == [kind |-> "none", stor |-> "none", local |-> "ok", ret |-> "pending",
           midCancel |-> FALSE, exhausted |-> FALSE, calls |-> 0]

\* The inbound line currently handled.  Lines are numbered as they are read,
\* and the object a line names is identified with that number: git-lfs
\* requests every object once per session, so oids differ from line to line.
req == nread

\* ---- Comms --------------------------------------------------------------
\* Comms.Send: enc.Encode(msg) hands one record to the encoder; Send returns
\* an error when the outbound pipe no longer accepts the write.
Send(m) == Append(out, m)
SendFails == ~outOK

\* The data directory transfer is given, and filepath.Abs of
\* filepath.Join(dataDir, oid): a path that starts at the root stays as it
\* is, any other is put under the working directory.
DataDir == <<"/", "repo", ".git", "tanker", "tmp">>
Abs(path) ==
  IF Len(path) >= 1 /\ path[1] = "/" THEN path ELSE <<"/", "cwd">> \o path
DownloadPath(oid) == Abs(Append(DataDir, oid))

ProgressMessage(oid, total, inc) ==
  [event |-> "progress", oid |-> oid, soFar |-> total, inc |-> inc,
   path |-> <<>>, why |-> "none"]
\* SendComplete(oid, path)
CompleteMessage(oid, path) ==
  [event |-> "complete", oid |-> oid, soFar |-> 0, inc |-> 0,
   path |-> path, why |-> "none"]
\* SendError(oid, err)
ErrorMessage(oid, err) ==
  [event |-> "error", oid |-> oid, soFar |-> 0, inc |-> 0,
   path |-> <<>>, why |-> err]
InitAck ==
  [event |-> "init", oid |-> 0, soFar |-> 0, inc |-> 0,
   path |-> <<>>, why |-> "none"]

\* ---- storage backends: where the call observes the context --------------
\* The copy loop reads through ContextReader(ctx, ...) in every backend and
\* operation (GoogleCloud.Put/Get, Swift.Put/Get, ftpclient.Get) except
\* ftpclient.Put, which hands src to Stor unwrapped.
CopyChecksCtx(b, op) == ~(b = "ftp" /\ op = "put")

\* The configurations a session starts from.  Without a cancellation the
\* three backends are the same to the session, so the plain session takes
\* DefaultConfig's swift:// base URL, or one NewStorage turns down.
Confs       == [url : {"swift", "other", "empty"}, valid : BOOLEAN]
ConfsCancel == [url : Backends, valid : {TRUE}]

InitWith(cs) ==
  /\ pc = "start"
  /\ result = "none"
  /\ cause = "none"
  /\ conf \in cs
  /\ backend = "none"
  /\ nread = 0
  /\ msg = NoMsg
  /\ ctxDone = FALSE
  /\ outOK = TRUE
  /\ out = <<>>
  /\ cur = NoCur
  /\ obs = [i \in Reqs |-> NoObs]
  /\ ticks = 0
  /\ hist = [i \in Reqs |-> NoHist]

Init == InitWith(Confs) /\ call = NoCall
InitCancel == InitWith(ConfsCancel) /\ call = NoCall

\* transfer returns: the loop is over and the process exits.
Return(res, why) ==
  /\ pc' = "done"
  /\ result' = res
  /\ cause' = why

\* StartFailed when transfer goes into its loop without a store.
StartFailedIgnored(why) ==
  /\ pc' = "input"
  /\ UNCHANGED <<result, cause, backend>>

\* transfer before the loop: return fmt.Errorf("config BaseURL is required")
\* and, after NewStorage, return err.
StartFailed(why) ==
  /\ Return("err", why)
  /\ UNCHANGED backend

\* transfer, up to the start of the loop: BaseURL check and NewStorage.
TransferStart ==
  /\ pc = "start"
  /\ UNCHANGED <<call, conf, nread, msg, ctxDone, outOK, out, cur, obs, ticks, hist>>
  /\ IF conf.url = "empty"
       THEN StartFailed("baseurl")
     ELSE IF conf.url \notin Backends \/ ~conf.valid
       THEN StartFailed("construct")
     ELSE \E built \in BOOLEAN :
            \* NewFTP cannot fail; NewGoogleCloud and NewSwift can.
            IF built \/ conf.url = "ftp"
              THEN /\ backend' = conf.url
                   /\ pc' = "input"
                   /\ UNCHANGED <<result, cause>>
              ELSE StartFailed("construct")

LineKinds == {"init", "upload", "download", "terminate", "unknown", "garbage", "scanerr", "eof"}
Transfers == {"upload", "download"}

\* InputFailed when transfer goes on to the next line after an error of Input.
InputFailedContinue(why) ==
  /\ pc' = "input"
  /\ UNCHANGED <<result, cause>>

\* transfer's check of the error Comms.Input returned: return err.
InputFailed(why) == Return("err", why)

\* Comms.Input followed by transfer's error check.
Input ==
  /\ pc = "input"
  /\ UNCHANGED <<call, conf, backend, ctxDone, outOK, out, cur, obs, ticks>>
  /\ IF nread = MaxLines
       THEN \* the input is exhausted: Scan() reports no more lines
            /\ msg' = [kind |-> "terminate", oid |-> 0, size |-> 0]
            /\ pc' = "handle"
            /\ UNCHANGED <<nread, hist, result, cause>>
       ELSE \E k \in LineKinds, s \in 0..MaxSize :
            CASE k = "eof" ->
                   /\ msg' = [kind |-> "terminate", oid |-> 0, size |-> 0]
                   /\ pc' = "handle"
                   /\ UNCHANGED <<nread, hist, result, cause>>
              [] k = "scanerr" ->
                   /\ InputFailed("scan")
                   /\ UNCHANGED <<nread, hist, msg>>
              [] k = "garbage" ->
                   /\ nread' = nread + 1
                   /\ hist' = [hist EXCEPT ![nread + 1].kind = k, ![nread + 1].ret = "none"]
                   /\ InputFailed("unparsable")
                   /\ UNCHANGED msg
              [] k = "unknown" ->
                   /\ nread' = nread + 1
                   /\ hist' = [hist EXCEPT ![nread + 1].kind = k, ![nread + 1].ret = "none"]
                   /\ InputFailed("unknown")
                   /\ UNCHANGED msg
              [] OTHER ->
                   /\ nread' = nread + 1
                   /\ msg' = [kind |-> k,
                              oid  |-> IF k \in Transfers THEN nread + 1 ELSE 0,
                              size |-> IF k \in Transfers THEN s ELSE 0]
                   /\ hist' = [hist EXCEPT ![nread + 1].kind = k]
                   /\ pc' = "handle"
                   /\ UNCHANGED <<result, cause>>

\* handle, case *InitMessage: comms.Initialized(), whose write error is dropped.
HandleInit ==
  /\ pc = "handle" /\ msg.kind = "init"
  /\ out' = Send(InitAck)
  /\ hist' = [hist EXCEPT ![req].ret = "nil"]
  /\ pc' = "input"
  /\ UNCHANGED <<call, result, cause, conf, backend, nread, msg, ctxDone, outOK, cur, obs, ticks>>

\* handle, case *TerminateMessage, and the break out of transfer's loop.
HandleTerminate ==
  /\ pc = "handle" /\ msg.kind = "terminate"
  /\ Return("nil", "terminate")
  /\ hist' = IF req \in Reqs /\ hist[req].kind = "terminate" /\ hist[req].ret = "pending"
               THEN [hist EXCEPT ![req].ret = "nil"] ELSE hist
  /\ UNCHANGED <<call, conf, backend, nread, msg, ctxDone, outOK, out, cur, obs, ticks>>

\* go watchProgress(watchCtx, comms, oid, size, counter): the observer of the
\* current line starts with its ticker in the select and the range loop waiting.
\* The object transferred has the size the message announces.
StartObserver(size) ==
  [NoObs EXCEPT !.tk = "wait", !.w = "recv", !.size = size]

\* LocalFileFailed when the failure is reported like a failed transfer: an
\* Error message for the oid, and the loop goes on.
LocalFileFailedAsObjectError(why, tag) ==
  /\ out' = Send(ErrorMessage(msg.oid, why))
  /\ hist' = [hist EXCEPT ![req].local = tag, ![req].ret = "nil"]
  /\ pc' = "input"
  /\ UNCHANGED <<result, cause, cur, obs>>

\* handle when os.Open / os.Create fails: return fmt.Errorf(...), which
\* transfer returns in turn.  Nothing is sent and the store is not called.
LocalFileFailed(why, tag) ==
  /\ Return("err", why)
  /\ hist' = [hist EXCEPT ![req].local = tag, ![req].ret = "err"]
  /\ UNCHANGED <<out, cur, obs>>

\* handle, case *UploadMessage up to the call of store.Put: Join (no backend's
\* Join returns an error), os.Open, progress.NewReader, go watchProgress.
HandleUploadOpen ==
  /\ pc = "handle" /\ msg.kind = "upload"
  /\ UNCHANGED <<call, conf, backend, nread, msg, ctxDone, outOK, ticks>>
  /\ \E opened \in BOOLEAN :
       IF ~opened
         THEN LocalFileFailed("open", "openfail")
         ELSE /\ obs' = [obs EXCEPT ![req] = StartObserver(msg.size)]
              /\ cur' = [NoCur EXCEPT !.op = "put", !.phase = "copy", !.flen = msg.size]
              /\ hist' = [hist EXCEPT ![req].stor = "running", ![req].calls = @ + 1]
              /\ pc' = "store"
              /\ UNCHANGED <<result, cause, out>>

\* handle, case *DownloadMessage up to the call of store.Get: filepath.Abs of
\* the absolute data directory, Join, os.Create, progress.NewWriter, go watchProgress.
HandleDownloadCreate ==
  /\ pc = "handle" /\ msg.kind = "download"
  /\ UNCHANGED <<call, conf, backend, nread, msg, ctxDone, outOK, ticks>>
  /\ \E created \in BOOLEAN :
       IF ~created
         THEN LocalFileFailed("create", "createfail")
         ELSE /\ obs' = [obs EXCEPT ![req] = StartObserver(msg.size)]
              /\ cur' = [NoCur EXCEPT !.op = "get", !.phase = "copy", !.flen = msg.size]
              /\ hist' = [hist EXCEPT ![req].stor = "running", ![req].calls = @ + 1]
              /\ pc' = "store"
              /\ UNCHANGED <<result, cause, out>>

\* ---- the storage call (store.Put / store.Get) ---------------------------
\* The call returns to handle, which calls cancel() at once and, for a
\* download, closes the destination file.
StoreReturn(e, eof) ==
  /\ \E closeFailed \in BOOLEAN :
       /\ closeFailed => cur.op = "get"
       /\ cur' = [cur EXCEPT !.phase = "returned", !.err = e, !.closeErr = closeFailed]
       /\ hist' = [hist EXCEPT ![req].stor = e,
                               ![req].exhausted = eof,
                               ![req].local = IF closeFailed THEN "closefail" ELSE @]
  /\ obs' = [obs EXCEPT ![req].wcancel = TRUE]
  /\ pc' = "cancelled"

\* One Read of the backend's copy loop.  Through ContextReader a cancelled
\* context makes the Read, and with it the storage call, fail.  Otherwise one
\* chunk passes through the progress counter or, at the end of the stream,
\* the copy is over and the call returns its Object.
StoreRead ==
  /\ pc = "store" /\ cur.phase = "copy"
  /\ UNCHANGED <<call, result, cause, conf, backend, nread, msg, ctxDone, outOK, out, ticks>>
  /\ IF CopyChecksCtx(backend, cur.op) /\ ctxDone
       THEN StoreReturn("err", FALSE)
     ELSE IF obs[req].n < cur.flen
       THEN /\ obs' = [obs EXCEPT ![req].n = @ + 1]
            /\ UNCHANGED <<cur, hist, pc>>
       ELSE StoreReturn("ok", TRUE)

\* A transport or protocol failure, at any point of the call.
StoreFail ==
  /\ pc = "store" /\ cur.phase = "copy"
  /\ StoreReturn("err", FALSE)
  /\ UNCHANGED <<call, result, cause, conf, backend, nread, msg, ctxDone, outOK, out, ticks>>

\* handlePanic when the recovered error does not reach handle's result:
\* handle returns nil and the loop goes on.
handlePanicDropsError ==
  /\ hist' = [hist EXCEPT ![req].stor = "panic", ![req].ret = "nil"]
  /\ pc' = "input"
  /\ UNCHANGED <<result, cause>>

\* handlePanic recovers and hands the error to handle's named result, which
\* transfer returns.
handlePanic ==
  /\ hist' = [hist EXCEPT ![req].stor = "panic", ![req].ret = "err"]
  /\ Return("err", "panic")

\* A panic inside the call unwinds handle: the deferred cancel() runs, then
\* the deferred handlePanic.
StorePanic ==
  /\ pc = "store" /\ cur.phase = "copy"
  /\ obs' = [obs EXCEPT ![req].wcancel = TRUE]
  /\ cur' = [cur EXCEPT !.phase = "returned", !.err = "panic"]
  /\ handlePanic
  /\ UNCHANGED <<call, conf, backend, nread, msg, ctxDone, outOK, out, ticks>>

\* TerminalError when the error of the close is looked at first.
TerminalErrorCloseFirst ==
  IF cur.closeErr THEN "close" ELSE "store"

\* The error handle passes to SendError: err of the storage call when there is
\* one, closeErr otherwise.
TerminalError ==
  IF cur.err # "ok" THEN "store" ELSE "close"

\* The path handle passes to SendComplete: "" for an upload, abspath for a
\* download.
TerminalPath ==
  IF cur.op = "get" THEN DownloadPath(msg.oid) ELSE <<>>

\* Terminal with the test of err inverted.
TerminalInverted ==
  IF cur.err # "ok" \/ cur.closeErr
    THEN CompleteMessage(msg.oid, TerminalPath)
    ELSE ErrorMessage(msg.oid, TerminalError)

\* Terminal without the test of closeErr.
TerminalIgnoresClose ==
  IF cur.err # "ok"
    THEN ErrorMessage(msg.oid, TerminalError)
    ELSE CompleteMessage(msg.oid, TerminalPath)

\* The terminal message handle decides on: SendError for a failed call or a
\* failed close, SendComplete otherwise.
Terminal ==
  IF cur.err # "ok" \/ cur.closeErr
    THEN ErrorMessage(msg.oid, TerminalError)
    ELSE CompleteMessage(msg.oid, TerminalPath)

\* HandleResult when SendError's error is returned as well.
HandleResultAnySendError(m) == IF SendFails THEN "err" ELSE "nil"

\* handle's result after the terminal message: SendError drops the error of
\* Send and handle returns nil; SendComplete's error is handle's result.
HandleResult(m) == IF m.event = "complete" /\ SendFails THEN "err" ELSE "nil"

\* The end of the Upload/Download case and transfer's check of handle's result.
HandleFinish ==
  /\ pc = "cancelled"
  /\ out' = Send(Terminal)
  /\ hist' = [hist EXCEPT ![req].ret = HandleResult(Terminal)]
  /\ IF HandleResult(Terminal) = "err"
       THEN Return("err", "sendcomplete")
       ELSE /\ pc' = "input"
            /\ UNCHANGED <<result, cause>>
  /\ cur' = NoCur
  /\ UNCHANGED <<call, conf, backend, nread, msg, ctxDone, outOK, obs, ticks>>

\* ---- the progress observer ----------------------------------------------
\* Goroutines run while the process does.
Alive == pc \notin {"start", "done"}

WatchCtxDone(i) == obs[i].wcancel \/ ctxDone

\* An observer whose ticker has closed the channel and whose range loop holds
\* no sample has ended; nothing reads its fields again.
Ended(o) == IF o.tk = "closed" /\ o.w = "recv" THEN [NoObs EXCEPT !.tk = "closed", !.w = "done"] ELSE o

\* progress.Progress.Complete: the ticker returns after a complete sample.
Complete(n, size) == n >= size

\* progress.NewTicker's goroutine, case <-time.After(d): sample counter.N()
\* and hand it over the unbuffered channel, to for p := range t when the loop
\* is waiting, else blocking in ch <- progress.  The timer is set anew on
\* every entry of the select, so it wins only while the context is live.
TickerTick(i) ==
  /\ Alive /\ obs[i].tk = "wait" /\ ~WatchCtxDone(i) /\ ticks < MaxTicks
  /\ ticks' = ticks + 1
  /\ obs' = [obs EXCEPT ![i] =
       IF obs[i].w = "recv"
         THEN [@ EXCEPT !.w = "got", !.p = obs[i].n,
                        !.tk = IF Complete(obs[i].n, obs[i].size) THEN "closed" ELSE "wait"]
         ELSE [@ EXCEPT !.tk = "send", !.pn = obs[i].n]]
  /\ UNCHANGED <<call, pc, result, cause, conf, backend, nread, msg, ctxDone, outOK, out, cur, hist>>

\* progress.NewTicker's goroutine, case <-ctx.Done(): close the channel.
TickerExit(i) ==
  /\ Alive /\ obs[i].tk = "wait" /\ WatchCtxDone(i)
  /\ obs' = [obs EXCEPT ![i] = Ended([@ EXCEPT !.tk = "closed"])]
  /\ UNCHANGED <<call, pc, result, cause, conf, backend, nread, msg, ctxDone, outOK, out, cur, ticks, hist>>

\* WatchTotal when the increment is reported as the total.
WatchTotalSinceLast(p, last) == p - last

\* The body of watchProgress's loop: total, inc, last.
WatchTotal(p, last) == p
WatchInc(p, last) == WatchTotal(p, last) - last

\* One iteration of watchProgress's loop, and the receive that follows it: a
\* sample the ticker is blocked on is taken over at once.
watchProgress(i) ==
  /\ Alive /\ obs[i].w = "got"
  /\ LET total == WatchTotal(obs[i].p, obs[i].last)
         inc   == WatchInc(obs[i].p, obs[i].last)
     IN /\ out' = Send(ProgressMessage(i, total, inc))
        /\ obs' = [obs EXCEPT ![i] =
             IF obs[i].tk = "send"
               THEN [@ EXCEPT !.last = total, !.p = obs[i].pn, !.pn = 0,
                              !.tk = IF Complete(obs[i].pn, obs[i].size) THEN "closed" ELSE "wait"]
               ELSE Ended([@ EXCEPT !.last = total, !.w = "recv", !.p = 0])]
  /\ UNCHANGED <<call, pc, result, cause, conf, backend, nread, msg, ctxDone, outOK, cur, ticks, hist>>

\* ---- environment --------------------------------------------------------
\* The context handed to handle is cancelled.  A cancellation that arrives
\* while the storage call still has bytes of its stream to copy is recorded.
CancelSession ==
  /\ Alive /\ ~ctxDone
  /\ ctxDone' = TRUE
  /\ hist' = IF pc = "store" /\ cur.phase = "copy" /\ obs[req].n < cur.flen
               THEN [hist EXCEPT ![req].midCancel = TRUE] ELSE hist
  /\ UNCHANGED <<call, pc, result, cause, conf, backend, nread, msg, outOK, out, cur, obs, ticks>>

\* The peer closes its end of the outbound pipe: later Encode calls fail.
BreakOutput ==
  /\ Alive /\ outOK
  /\ outOK' = FALSE
  /\ UNCHANGED <<call, pc, result, cause, conf, backend, nread, msg, ctxDone, out, cur, obs, ticks, hist>>

Next ==
  \/ TransferStart
  \/ Input
  \/ HandleInit
  \/ HandleTerminate
  \/ HandleUploadOpen
  \/ HandleDownloadCreate
  \/ StoreRead
  \/ StoreFail
  \/ StorePanic
  \/ HandleFinish
  \/ \E i \in Reqs : TickerTick(i)
  \/ \E i \in Reqs : TickerExit(i)
  \/ \E i \in Reqs : watchProgress(i)
  \/ BreakOutput

Spec == Init /\ [][Next]_vars

\* The handler loop when the caller of handle cancels the context.  What the
\* storage call returns and which terminal message follows does not depend on
\* the observers, which are left out here.
NextCancel ==
  \/ TransferStart
  \/ Input
  \/ HandleInit
  \/ HandleTerminate
  \/ HandleUploadOpen
  \/ HandleDownloadCreate
  \/ StoreRead
  \/ StoreFail
  \/ StorePanic
  \/ HandleFinish
  \/ CancelSession

SpecCancel == InitCancel /\ [][NextCancel]_vars

\* ---- reading the outbound log --------------------------------------------
Progresses(i) == {k \in DOMAIN out : out[k].oid = i /\ out[k].event = "progress"}
Completes(i)  == {k \in DOMAIN out : out[k].oid = i /\ out[k].event = "complete"}
Errors(i)     == {k \in DOMAIN out : out[k].oid = i /\ out[k].event = "error"}
Terminals(i)  == Completes(i) \cup Errors(i)

\* handle has returned for line i.
Handled(i) == hist[i].ret \in {"nil", "err"}
\* store.Put / store.Get was called for line i.
Invoked(i) == hist[i].stor \in {"running", "ok", "err", "panic"}

\* The session ended while line i was the last one read, and not because of
\* what Comms.Input found next.
EndedBy(i) == pc = "done" /\ nread = i /\ cause \notin {"scan", "terminate"}

\* ---- C1 ------------------------------------------------------------------
\* C1 as claimed: once handle is through with an Upload/Download whose storage
\* call was invoked, exactly one terminal message (Complete or Error) has been
\* sent for its oid.
C1_ExactlyOneTerminal ==
  \A i \in Reqs : Invoked(i) /\ Handled(i) => Cardinality(Terminals(i)) = 1

\* ---- C2 ------------------------------------------------------------------
\* C2 as claimed: in the outbound log no Progress message of an oid comes
\* after the terminal message of that oid.
C2_ProgressBeforeTerminal ==
  \A k, l \in DOMAIN out :
    k < l /\ out[k].event \in {"complete", "error"} /\ out[l].event = "progress"
      => out[k].oid # out[l].oid

\* ---- C3 ------------------------------------------------------------------
\* C3: the bytesSoFar values of the Progress messages of one oid, in the
\* order they are sent, never decrease.
C3_SoFarNonDecreasing ==
  \A k, l \in DOMAIN out :
    k < l /\ out[k].event = "progress" /\ out[l].event = "progress"
          /\ out[k].oid = out[l].oid
      => out[k].soFar <= out[l].soFar

C3_Witness ==
  \E k, l \in DOMAIN out :
    /\ k < l /\ out[k].event = "progress" /\ out[l].event = "progress"
    /\ out[k].oid = out[l].oid
    /\ out[k].soFar >= 1 /\ out[k].soFar < out[l].soFar

\* ---- C4 ------------------------------------------------------------------
\* C4 as claimed: once a later inbound line has been read, no Progress
\* message of an earlier line's oid is sent any more.
C4_NoProgressOfEarlierOid ==
  [][\A i \in Reqs :
       i < nread =>
         ~(/\ Len(out') = Len(out) + 1
           /\ out'[Len(out')].event = "progress"
           /\ out'[Len(out')].oid = i)]_vars

\* ---- C5 ------------------------------------------------------------------
\* C5: when Put/Get returned an error, handle sends one Error message for the
\* oid and returns nil, and the session does not end on that account: it goes
\* back to Comms.Input.
C5_StorageErrorKeepsSession ==
  \A i \in Reqs :
    hist[i].stor = "err" /\ Handled(i)
      => /\ hist[i].ret = "nil"
         /\ Cardinality(Errors(i)) = 1
         /\ Completes(i) = {}
         /\ ~EndedBy(i)

C5_Witness ==
  /\ hist[1].stor = "err" /\ hist[1].ret = "nil" /\ Errors(1) # {}
  /\ nread = 2 /\ hist[2].kind \in Transfers /\ pc = "store"

\* ---- C6 ------------------------------------------------------------------
\* A failure of the local file or of the storage call while line i was handled.
PerObjectFailure(i) ==
  hist[i].local \in {"openfail", "createfail", "closefail"} \/ hist[i].stor = "err"

C8_PanicBecomesErrorMessage ==
  \A i \in Reqs : hist[i].stor = "panic" => Errors(i) # {} /\ ~EndedBy(i)

\* ---- C9 ------------------------------------------------------------------
\* C9 as claimed: when the context is cancelled while a storage call is in
\* flight and bytes of its stream remain, the call returns without reaching
\* the end of the stream, and handle sends Error, not Complete, for the oid.
C9_CancelMidTransferGivesError ==
  \A i \in Reqs :
    hist[i].midCancel /\ hist[i].stor \in {"ok", "err"} /\ Handled(i)
      => ~hist[i].exhausted /\ Errors(i) # {} /\ Completes(i) = {}

\* ---- C10 -----------------------------------------------------------------
\* C10 as claimed: once Comms.Input has returned the Terminate message,
\* nothing more is sent and no line is read; handle returns nil and transfer
\* returns nil.
C10_NothingAfterTerminate ==
  [][msg.kind = "terminate" =>
       /\ out' = out
       /\ nread' = nread
       /\ pc' # pc => pc' = "done" /\ result' = "nil"]_vars

\* ---- C11 -----------------------------------------------------------------
\* C11: a line that does not parse, or whose event is none of init / upload /
\* download / terminate, makes Comms.Input return an error and transfer
\* return it: no storage call is made for the line, nothing is sent for it,
\* and it stays the last line read.
C11_BadLineAbortsSession ==
  \A i \in Reqs :
    hist[i].kind \in {"garbage", "unknown"}
      => /\ pc = "done" /\ result = "err"
         /\ cause = (IF hist[i].kind = "garbage" THEN "unparsable" ELSE "unknown")
         /\ nread = i
         /\ ~Invoked(i) /\ Terminals(i) = {} /\ Progresses(i) = {}
         /\ \A j \in Reqs : j > i => hist[j] = NoHist

C11_Witness ==
  /\ hist[1].kind \in Transfers /\ Handled(1)
  /\ hist[2].kind = "unknown" /\ pc = "done"

\* ---- C12 -----------------------------------------------------------------
\* C12 as claimed: store.Put / store.Get is called for a line only when an
\* earlier line was an Init message that handle acknowledged.
C12_NoStorageBeforeInit ==
  \A i \in Reqs :
    Invoked(i) => \E j \in Reqs : j < i /\ hist[j].kind = "init" /\ hist[j].ret = "nil"

\* ---- C13 -----------------------------------------------------------------
\* C13: lines are handled one at a time in the order read: when the storage
\* call of a line has been started, the storage call of every earlier
\* Upload/Download has returned, handle is through with it and exactly one
\* terminal message has been sent for it; never two calls are in flight.
C13_OneInFlight ==
  /\ \A i, j \in Reqs :
       i < j /\ hist[i].kind \in Transfers /\ Invoked(j)
         => /\ hist[i].stor \in {"ok", "err"} /\ Handled(i)
            /\ Cardinality(Terminals(i)) = 1
  /\ \A i, j \in Reqs :
       hist[i].stor = "running" /\ hist[j].stor = "running" => i = j
  /\ \A i \in Reqs : hist[i].stor = "running" => i = nread

C13_Witness ==
  /\ hist[1].kind \in Transfers /\ Terminals(1) # {}
  /\ hist[2].stor = "running"

\* ==== the storage package, call by call ====================================
\* The session at rest while a call of the storage package is taken by itself.
SessionIdle == InitWith({[url |-> "swift", valid |-> TRUE]})

\* ---- Join ----------------------------------------------------------------
MaxLen == 3      \* longest base URL and subpath, in characters

\* Strings are sequences of characters; '/' and one other character tell
\* every case of Join apart.
Chars == {"/", "x"}
Strs(n) == UNION {[1..k -> Chars] : k \in 0..n}

\* TrimSuffix when every trailing suffix is removed (strings.TrimRight).
RECURSIVE TrimRight(_, _)
TrimRight(s, suffix) ==
  IF Len(s) > 0 /\ s[Len(s)] = suffix
    THEN TrimRight(SubSeq(s, 1, Len(s) - 1), suffix)
    ELSE s

\* strings.TrimSuffix(s, suffix) for a suffix of one character.
TrimSuffix(s, suffix) ==
  IF Len(s) > 0 /\ s[Len(s)] = suffix
    THEN SubSeq(s, 1, Len(s) - 1)
    ELSE s

\* GoogleCloud.Join, Swift.Join: the joined URL and a nil error.
GoogleCloudJoin(url, path) ==
  [url |-> TrimSuffix(url, "/") \o <<"/">> \o path, err |-> "nil"]
SwiftJoin(url, path) ==
  [url |-> TrimSuffix(url, "/") \o <<"/">> \o path, err |-> "nil"]

\* ftpJoin without the separator between URL and subpath.
ftpJoinNoSeparator(url, path) ==
  [url |-> TrimSuffix(url, "/") \o path, err |-> "nil"]

\* ftpJoin, which FTP.Join returns.
ftpJoin(url, path) ==
  [url |-> TrimSuffix(url, "/") \o <<"/">> \o path, err |-> "nil"]

\* store.Join(url, path) through the Storage interface.
Join(b, url, path) ==
  CASE b = "gs"    -> GoogleCloudJoin(url, path)
    [] b = "swift" -> SwiftJoin(url, path)
    [] b = "ftp"   -> ftpJoin(url, path)

InitJoin ==
  /\ SessionIdle
  /\ call \in [fn : {"Join"}, b : Backends, url : Strs(MaxLen), path : Strs(MaxLen),
               step : {0}, res : {[url |-> <<>>, err |-> "none"]},
               again : {[url |-> <<>>, err |-> "none"]}]

\* url2 := Join(url, path)
JoinCall ==
  /\ call.fn = "Join" /\ call.step = 0
  /\ call' = [call EXCEPT !.step = 1, !.res = Join(call.b, call.url, call.path)]
  /\ UNCHANGED session

\* Join(url2, "")
JoinAgain ==
  /\ call.fn = "Join" /\ call.step = 1
  /\ call' = [call EXCEPT !.step = 2, !.again = Join(call.b, call.res.url, <<>>)]
  /\ UNCHANGED session

NextJoin == JoinCall \/ JoinAgain

SpecJoin == InitJoin /\ [][NextJoin]_vars

\* The string ends in '/'.
EndsInSlash(s) == Len(s) > 0 /\ s[Len(s)] = "/"

\* ---- C14 -----------------------------------------------------------------
\* C14 as claimed: Join(Join(a, oid), "") is Join(a, oid), for every backend,
\* base address a and object identifier oid.
C14_JoinEmptyIsIdentity ==
  call.fn = "Join" /\ call.step = 2 => call.again.url = call.res.url

\* C14 amended: Join(Join(a, oid), "") is Join(a, oid) exactly when oid is
\* empty or ends in '/'; for every other oid it is Join(a, oid) followed by
\* one '/'.
C14_JoinEmptyAppendsSlash ==
  call.fn = "Join" /\ call.step = 2
    => /\ call.again.url = call.res.url <=> (call.path = <<>> \/ EndsInSlash(call.path))
       /\ ~(call.path = <<>> \/ EndsInSlash(call.path))
            => call.again.url = call.res.url \o <<"/">>

C14_Witness ==
  /\ call.fn = "Join" /\ call.step = 2 /\ call.b = "ftp"
  /\ call.url = <<"x", "/">> /\ call.path = <<"x", "x">>
  /\ call.again.url = <<"x", "/", "x", "x", "/">>

\* ---- C15 -----------------------------------------------------------------
\* C15: Join(base, sub) returns no error and its result is base without one
\* trailing '/' (when there is one), then one '/', then sub; joining the
\* result of a join with the empty subpath once more with the empty subpath
\* gives the same string.
C15_JoinShape ==
  call.fn = "Join" /\ call.step >= 1
    => LET base == IF EndsInSlash(call.url) THEN Len(call.url) - 1 ELSE Len(call.url)
           r    == call.res.url
       IN /\ call.res.err = "nil"
          /\ Len(r) = base + 1 + Len(call.path)
          /\ \A k \in 1..base : r[k] = call.url[k]
          /\ r[base + 1] = "/"
          /\ \A k \in 1..Len(call.path) : r[base + 1 + k] = call.path[k]
          /\ call.step = 2 /\ call.path = <<>>
               => call.again.err = "nil" /\ call.again.url = r

C15_Witness ==
  /\ call.fn = "Join" /\ call.step = 2 /\ call.b = "gs"
  /\ call.url = <<"x", "/", "/">> /\ call.path = <<>>
  /\ call.res.url = <<"x", "/", "/">> /\ call.again.url = call.res.url

\* ---- NewStorage -----------------------------------------------------------
MaxUrl == 3      \* longest address, in tokens

\* An address is a protocol prefix, taken as one token, or none, followed by
\* characters.
GSProtocol    == "gs://"
SwiftProtocol == "swift://"
FTPProtocol   == "ftp://"
Protocols == {GSProtocol, SwiftProtocol, FTPProtocol}
Addrs(n) == UNION {{s \in [1..k -> Protocols \cup Chars] :
                      \A i \in 2..k : s[i] \in Chars} : k \in 0..n}

\* strings.HasPrefix / strings.TrimPrefix for a protocol prefix.
HasPrefix(s, prefix) == Len(s) >= 1 /\ s[1] = prefix
TrimPrefix(s, prefix) == IF HasPrefix(s, prefix) THEN Tail(s) ELSE s

\* Sizes are counted in kilobytes (units.KB); units.MB and units.GB are decimal.
KB == 1
MB == 1000 * KB
GB == 1000 * MB

\* Configurations: a credential field is TRUE when it is a non-empty string.
SwiftFields == {"UserName", "Password", "AuthURL", "TenantName", "TenantID", "RegionName"}
SwiftConfigs == [Disabled : BOOLEAN, UserName : BOOLEAN, Password : BOOLEAN, AuthURL : BOOLEAN,
                 TenantName : BOOLEAN, TenantID : BOOLEAN, RegionName : BOOLEAN]
Configs == [GoogleCloud : [Disabled : BOOLEAN], Swift : SwiftConfigs, FTP : [Disabled : BOOLEAN]]

\* The environment variables SwiftConfig.Valid reads.
EnvVars == {"OS_USERNAME", "OS_PASSWORD", "OS_AUTH_URL", "OS_TENANT_NAME", "OS_PROJECT_NAME",
            "OS_TENANT_ID", "OS_PROJECT_ID", "OS_REGION_NAME"}

\* The ChunkSizeBytes values tried: unset, negative, and around both limits.
ChunkSizes == {-1, 0, 1, 10 * MB, 100 * MB - 1, 100 * MB, 100 * MB + 1, 500 * MB,
               5 * GB - 1, 5 * GB, 5 * GB + 1}

GoogleCloudConfigValid(g) == ~g.Disabled

FTPConfigValid(h) == ~h.Disabled

\* SwiftConfig.Valid without the test of the region.
SwiftConfigValidNoRegion(c, env) ==
  LET user       == c.UserName \/ "OS_USERNAME" \in env
      password   == c.Password \/ "OS_PASSWORD" \in env
      authURL    == c.AuthURL \/ "OS_AUTH_URL" \in env
      tenantName == c.TenantName \/ "OS_TENANT_NAME" \in env \/ "OS_PROJECT_NAME" \in env
      tenantID   == c.TenantID \/ "OS_TENANT_ID" \in env \/ "OS_PROJECT_ID" \in env
      valid      == user /\ password /\ authURL /\ tenantName /\ tenantID
  IN ~c.Disabled /\ valid

\* SwiftConfig.Valid
SwiftConfigValid(c, env) ==
  LET user       == c.UserName \/ "OS_USERNAME" \in env
      password   == c.Password \/ "OS_PASSWORD" \in env
      authURL    == c.AuthURL \/ "OS_AUTH_URL" \in env
      tenantName == c.TenantName \/ "OS_TENANT_NAME" \in env \/ "OS_PROJECT_NAME" \in env
      tenantID   == c.TenantID \/ "OS_TENANT_ID" \in env \/ "OS_PROJECT_ID" \in env
      region     == c.RegionName \/ "OS_REGION_NAME" \in env
      valid      == user /\ password /\ authURL /\ tenantName /\ tenantID /\ region
  IN ~c.Disabled /\ valid

\* The Valid() NewStorage asks of the configuration of backend b.
Valid(b, cf, env) ==
  CASE b = "gs"    -> GoogleCloudConfigValid(cf.GoogleCloud)
    [] b = "swift" -> SwiftConfigValid(cf.Swift, env)
    [] b = "ftp"   -> FTPConfigValid(cf.FTP)

\* NewSwift's chunk size with the floor the comment on ChunkSizeBytes names.
NewSwiftChunkSizeFloor10(c) ==
  IF c < 10 * MB THEN 500 * MB
  ELSE IF c > 5 * GB THEN 5 * GB
  ELSE c

\* NewSwift: the chunk size taken from conf.ChunkSizeBytes.
NewSwiftChunkSize(c) ==
  IF c < 100 * MB THEN 500 * MB
  ELSE IF c > 5 * GB THEN 5 * GB
  ELSE c

\* NewStorageBackend when an address without a known prefix goes to FTP.
NewStorageBackendDefaultFTP(url) ==
  IF HasPrefix(url, GSProtocol) THEN "gs"
  ELSE IF HasPrefix(url, SwiftProtocol) THEN "swift"
  ELSE "ftp"

\* NewStorage's chain of prefix tests: the backend whose branch is taken.
NewStorageBackend(url) ==
  IF HasPrefix(url, GSProtocol) THEN "gs"
  ELSE IF HasPrefix(url, SwiftProtocol) THEN "swift"
  ELSE IF HasPrefix(url, FTPProtocol) THEN "ftp"
  ELSE "none"

\* NewStorage(url, conf) with the environment env; built tells whether the
\* constructor succeeds (NewFTP always does), c is conf.Swift.ChunkSizeBytes.
\* constructed holds the constructors that were called.
NewStorage(url, cf, env, built, c) ==
  LET b == NewStorageBackend(url)
      failed(e, cs) == [store |-> "none", err |-> e, constructed |-> cs, chunkSize |-> 0]
  IN IF b = "none" THEN failed("nomatch", {})
     ELSE IF ~Valid(b, cf, env) THEN failed("invalid", {})
     ELSE IF ~built /\ b # "ftp" THEN failed("construct", {b})
     ELSE [store |-> b, err |-> "nil", constructed |-> {b},
           chunkSize |-> IF b = "swift" THEN NewSwiftChunkSize(c) ELSE 0]

NoStore == [store |-> "none", err |-> "none", constructed |-> {}, chunkSize |-> 0]

InitNewStorage ==
  /\ SessionIdle
  /\ call \in [fn : {"NewStorage"}, url : Addrs(MaxUrl), conf : Configs, step : {0},
               env : {{}}, chunkIn : {0}, valid : {[b \in Backends |-> FALSE]}, res : {NoStore}]

\* One call of NewStorage.  The environment is read by Valid; the constructor
\* runs, and ChunkSizeBytes matters, only on the branch that reaches it.
NewStorageCall ==
  /\ call.fn = "NewStorage" /\ call.step = 0
  /\ \E env \in IF NewStorageBackend(call.url) = "swift" /\ ~call.conf.Swift.Disabled
                   THEN SUBSET EnvVars ELSE {{}},
        built \in BOOLEAN :
       \E c \in IF NewStorageBackend(call.url) = "swift" /\ built
                        /\ Valid("swift", call.conf, env)
                   THEN ChunkSizes ELSE {0} :
         call' = [call EXCEPT !.step = 1, !.env = env, !.chunkIn = c,
                              !.valid = [b \in Backends |-> Valid(b, call.conf, env)],
                              !.res = NewStorage(call.url, call.conf, env, built, c)]
  /\ UNCHANGED session

NextNewStorage == NewStorageCall

SpecNewStorage == InitNewStorage /\ [][NextNewStorage]_vars

\* The backend an address names by its prefix, "none" without a known prefix.
PrefixOf(url) ==
  IF url # <<>> /\ url[1] = "gs://" THEN "gs"
  ELSE IF url # <<>> /\ url[1] = "swift://" THEN "swift"
  ELSE IF url # <<>> /\ url[1] = "ftp://" THEN "ftp"
  ELSE "none"

\* ---- C16 -----------------------------------------------------------------
\* C16: NewStorage picks the backend by the address prefix alone; an address
\* with none of the three prefixes gets an error; a known prefix whose
\* configuration is not Valid() gets an error and no constructor is called;
\* only the constructor of the prefix's backend is ever called.
C16_DispatchByPrefix ==
  call.fn = "NewStorage" /\ call.step = 1
    => LET b == PrefixOf(call.url)
           r == call.res
       IN /\ b = "none" => r.err # "nil" /\ r.store = "none" /\ r.constructed = {}
          /\ b # "none" /\ ~call.valid[b]
               => r.err # "nil" /\ r.store = "none" /\ r.constructed = {}
          /\ r.constructed \subseteq {b}
          /\ r.err = "nil" <=> r.store # "none"
          /\ r.store # "none" => r.store = b /\ call.valid[b]

C16_Witness ==
  /\ call.fn = "NewStorage" /\ call.step = 1
  /\ call.url = <<"ftp://", "x">> /\ call.conf.FTP.Disabled
  /\ ~call.conf.GoogleCloud.Disabled
  /\ call.res.err = "invalid" /\ call.res.constructed = {}

\* ---- C17 -----------------------------------------------------------------
\* The fields backend b needs to authenticate that neither the configuration
\* nor the environment supplies.  NewSwift builds its connection from six
\* fields, each also read from the environment.  NewGoogleCloud falls back to
\* the default credentials and NewFTP takes none: connect logs in with the
\* credentials of the address or the configured defaults.
Missing(b, cf, env) ==
  IF b # "swift" THEN {}
  ELSE {f \in SwiftFields :
          /\ ~cf.Swift[f]
          /\ CASE f = "UserName"   -> "OS_USERNAME" \notin env
               [] f = "Password"   -> "OS_PASSWORD" \notin env
               [] f = "AuthURL"    -> "OS_AUTH_URL" \notin env
               [] f = "TenantName" -> {"OS_TENANT_NAME", "OS_PROJECT_NAME"} \cap env = {}
               [] f = "TenantID"   -> {"OS_TENANT_ID", "OS_PROJECT_ID"} \cap env = {}
               [] f = "RegionName" -> "OS_REGION_NAME" \notin env}

\* C17: a configuration that is not disabled and lacks a field its backend
\* needs to authenticate is not Valid(), and NewStorage returns an error for
\* an address of that backend without calling the constructor.
C17_MissingCredentialInvalid ==
  call.fn = "NewStorage" /\ call.step = 1
    => \A b \in Backends :
         Missing(b, call.conf, call.env) # {}
           => /\ ~call.valid[b]
              /\ PrefixOf(call.url) = b
                   => call.res.err = "invalid" /\ call.res.constructed = {}

C17_Witness ==
  /\ call.fn = "NewStorage" /\ call.step = 1
  /\ call.url = <<"swift://", "x">> /\ ~call.conf.Swift.Disabled
  /\ Missing("swift", call.conf, call.env) = {"RegionName"}
  /\ "OS_USERNAME" \in call.env /\ ~call.conf.Swift.UserName
  /\ call.res.err = "invalid"

Ops == {"Stat", "List", "Get", "Put"}

\* The index of the first '/' of s, 0 when there is none.
FirstSlash(s) ==
  IF \E k \in 1..Len(s) : s[k] = "/"
    THEN CHOOSE k \in 1..Len(s) : s[k] = "/" /\ \A j \in 1..(k - 1) : s[j] # "/"
    ELSE 0

\* GoogleCloud.parse / Swift.parse: prefix test, empty remainder test, then
\* strings.SplitN(path, "/", 2) into bucket and path.
parse(protocol, rawurl) ==
  IF ~HasPrefix(rawurl, protocol)
    THEN [err |-> "unsupported", bucket |-> <<>>, path |-> <<>>]
  ELSE LET path == TrimPrefix(rawurl, protocol)
           k    == FirstSlash(path)
       IN IF path = <<>>
            THEN [err |-> "invalid", bucket |-> <<>>, path |-> <<>>]
          ELSE IF k = 0
            THEN [err |-> "nil", bucket |-> path, path |-> <<>>]
          ELSE [err |-> "nil", bucket |-> SubSeq(path, 1, k - 1),
                path |-> SubSeq(path, k + 1, Len(path))]

\* net/url.Parse on these strings: with a scheme the host runs up to the
\* first '/' and the path starts there; without one the string is the path.
\* It returns no error for any of them.
URLHost(url) ==
  IF url # <<>> /\ url[1] \in Protocols
    THEN LET rest == Tail(url)
             k    == FirstSlash(rest)
         IN IF k = 0 THEN rest ELSE SubSeq(rest, 1, k - 1)
    ELSE <<>>
URLPath(url) ==
  IF url # <<>> /\ url[1] \in Protocols
    THEN LET rest == Tail(url)
             k    == FirstSlash(rest)
         IN IF k = 0 THEN <<>> ELSE SubSeq(rest, k, Len(rest))
    ELSE url

\* What a backend does with the address of an operation before and when it
\* turns to the server: gs and swift parse it and call the service with the
\* bucket; ftp parses it as a URL and dials the host (on port 21, also when
\* the host is empty).  served tells whether the server then answers without
\* error.
AddressOf(b, op, url, served) ==
  IF b = "ftp"
    THEN [err |-> IF served THEN "nil" ELSE "backend",
          bucket |-> URLHost(url), contacted |-> TRUE]
    ELSE LET u == parse(IF b = "gs" THEN GSProtocol ELSE SwiftProtocol, url)
         IN IF u.err # "nil"
              THEN [err |-> u.err, bucket |-> <<>>, contacted |-> FALSE]
              ELSE [err |-> IF served THEN "nil" ELSE "backend",
                    bucket |-> u.bucket, contacted |-> TRUE]

InitAddress ==
  /\ SessionIdle
  /\ call \in [fn : {"Op"}, b : Backends, op : Ops, url : Addrs(MaxUrl), step : {0},
               res : {[err |-> "none", bucket |-> <<>>, contacted |-> FALSE]}]

\* One Stat / List / Get / Put on a backend.
OpCall ==
  /\ call.fn = "Op" /\ call.step = 0
  /\ \E served \in BOOLEAN :
       call' = [call EXCEPT !.step = 1, !.res = AddressOf(call.b, call.op, call.url, served)]
  /\ UNCHANGED session

NextAddress == OpCall

SpecAddress == InitAddress /\ [][NextAddress]_vars

\* The protocol prefix of backend b.
ProtocolOf(b) == CASE b = "gs" -> "gs://" [] b = "swift" -> "swift://" [] b = "ftp" -> "ftp://"

\* ---- C18 -----------------------------------------------------------------
\* C18 as claimed: every operation of every backend returns an error, without
\* turning to the server, for an address that lacks the backend's prefix or
\* has nothing after it; no operation turns to the server with an empty
\* bucket or host.
C18_BadAddressRejected ==
  call.fn = "Op" /\ call.step = 1
    => /\ (call.url = <<>> \/ call.url[1] # ProtocolOf(call.b) \/ Len(call.url) = 1)
            => call.res.err # "nil" /\ ~call.res.contacted
       /\ call.res.contacted => call.res.bucket # <<>>

\* ---- ftpclient.Stat --------------------------------------------------------
MaxEntries == 2      \* most entries the server lists for a path

FileTypes == {"file", "folder", "link"}
Entries == [Type : FileTypes, Size : 0..1]
Resps(n) == UNION {[1..k -> Entries] : k \in 0..n}

NoObject == [URL |-> <<>>, Name |-> <<>>, Size |-> -1]

\* NotFound when only an empty listing counts as not found.
NotFoundOnlyEmpty(resp) == Len(resp) = 0

\* ftpclient.Stat's test of the listing: len(resp) != 1.
NotFound(resp) == Len(resp) # 1

\* ftpclient.Stat(ctx, url), where client.List(u.Path) returned (resp, err).
ftpclientStat(url, listErr, resp) ==
  IF listErr THEN [obj |-> NoObject, err |-> "listing"]
  ELSE IF NotFound(resp) THEN [obj |-> NoObject, err |-> "notfound"]
  ELSE IF resp[1].Type # "file" THEN [obj |-> NoObject, err |-> "nonregular"]
  ELSE [obj |-> [URL |-> url, Name |-> TrimPrefix(URLPath(url), "/"), Size |-> resp[1].Size],
        err |-> "nil"]

InitStat ==
  /\ SessionIdle
  /\ call \in [fn : {"Stat"}, url : Addrs(MaxUrl), listErr : BOOLEAN, resp : Resps(MaxEntries),
               step : {0}, res : {[obj |-> NoObject, err |-> "none"]}]
  /\ call.listErr => call.resp = <<>>

StatCall ==
  /\ call.fn = "Stat" /\ call.step = 0
  /\ call' = [call EXCEPT !.step = 1, !.res = ftpclientStat(call.url, call.listErr, call.resp)]
  /\ UNCHANGED session

NextStat == StatCall

SpecStat == InitStat /\ [][NextStat]_vars

\* ---- C20 -----------------------------------------------------------------
\* C20: Stat returns an error and no Object when the listing of the path
\* fails or has no entry or more than one; it returns an Object, and no
\* error, only for a listing of exactly one entry that is a regular file,
\* with that entry's size.
C20_StatOneRegularFile ==
  call.fn = "Stat" /\ call.step = 1
    => LET r == call.res
       IN /\ call.listErr \/ Len(call.resp) # 1 => r.err # "nil" /\ r.obj = NoObject
          /\ r.err = "nil" <=> r.obj # NoObject
          /\ r.obj # NoObject
               => /\ ~call.listErr /\ Len(call.resp) = 1
                  /\ call.resp[1].Type = "file"
                  /\ r.obj.Size = call.resp[1].Size /\ r.obj.URL = call.url

C20_Witness ==
  /\ call.fn = "Stat" /\ call.step = 1
  /\ Len(call.resp) = 2 /\ call.resp[1].Type = "file" /\ call.resp[2].Type = "file"
  /\ call.res.err = "notfound" /\ call.res.obj = NoObject

\* ---- C22 -----------------------------------------------------------------
\* C22 as claimed: a Put/Get that failed with a transport or protocol error
\* has been attempted again before the Error message for its oid is sent.
\* (In the plain session the context is never cancelled, so every failed call
\* failed with such an error.)
C22_TransientFailureRetried ==
  \A i \in Reqs :
    hist[i].stor = "err" /\ Errors(i) # {} => hist[i].calls >= 2

\* ---- C24 -----------------------------------------------------------------
\* C24: when the base address is empty or no backend can be constructed,
\* transfer returns an error before its loop: no inbound line is read, no
\* outbound message is sent, no store is held.
C24_NoLoopWithoutStore ==
  pc # "start" /\ (\/ conf.url = "empty"
                   \/ conf.url \notin Backends
                   \/ ~conf.valid
                   \/ cause \in {"baseurl", "construct"})
    => /\ pc = "done" /\ result = "err"
       /\ cause = (IF conf.url = "empty" THEN "baseurl" ELSE "construct")
       /\ nread = 0 /\ out = <<>> /\ backend = "none"
       /\ \A i \in Reqs : hist[i] = NoHist

\* transfer has returned because the constructor of a valid configuration failed.
C24_Witness ==
  /\ pc = "done" /\ cause = "construct"
  /\ conf.url \in Backends /\ conf.valid
  /\ nread = 0 /\ out = <<>>

Revisions == {"transfer.go", "main.go"}
NoSample == -1

\* main.go's loop body.
MainInc(p, total) == p
MainTotal(p, total) == total + MainInc(p, total)

\* BytesSoFar and BytesSinceLast of the message a revision sends for sample p.
WatchMessage(rev, p, acc) ==
  IF rev = "transfer.go"
    THEN [soFar |-> WatchTotal(p, acc), inc |-> WatchInc(p, acc)]
    ELSE [soFar |-> MainTotal(p, acc), inc |-> MainInc(p, acc)]

InitWatch ==
  /\ SessionIdle
  /\ call \in [fn : {"watchProgress"}, rev : Revisions, size : 0..MaxSize, n : {0},
               p : {NoSample}, acc : {0}, samples : {<<>>}, msgs : {<<>>},
               closed : {FALSE}]

\* A chunk passes through the counting reader or writer.
WatchCount ==
  /\ call.fn = "watchProgress" /\ call.n < call.size
  /\ call' = [call EXCEPT !.n = @ + 1]
  /\ UNCHANGED session

\* The ticker samples the counter and offers the sample on its channel.
WatchSample ==
  /\ call.fn = "watchProgress" /\ call.p = NoSample /\ ~call.closed
  /\ Len(call.samples) < MaxTicks
  /\ call' = [call EXCEPT !.p = call.n, !.samples = Append(@, call.n)]
  /\ UNCHANGED session

\* for p := range t: one iteration of the loop.
WatchSend ==
  /\ call.fn = "watchProgress" /\ call.p # NoSample
  /\ LET m == WatchMessage(call.rev, call.p, call.acc)
     IN call' = [call EXCEPT !.msgs = Append(@, m), !.acc = m.soFar, !.p = NoSample]
  /\ UNCHANGED session

\* The watch context is cancelled: the ticker closes its channel and the
\* loop ends after the sample it may still hold.
WatchClose ==
  /\ call.fn = "watchProgress" /\ ~call.closed
  /\ call' = [call EXCEPT !.closed = TRUE]
  /\ UNCHANGED session

NextWatch == WatchCount \/ WatchSample \/ WatchSend \/ WatchClose

SpecWatch == InitWatch /\ [][NextWatch]_vars

\* ---- C29 -----------------------------------------------------------------
\* C29 as claimed: in every Progress message bytesSoFar is the number of
\* bytes the counter held when the sample was taken, never more than were
\* transferred, and bytesSinceLast is bytesSoFar minus the bytesSoFar of the
\* previous Progress message of the oid (minus 0 for the first).
C29_ProgressFields ==
  call.fn = "watchProgress" =>
    \A k \in DOMAIN call.msgs :
      /\ call.msgs[k].soFar = call.samples[k]
      /\ call.msgs[k].soFar <= call.n
      /\ call.msgs[k].inc =
           call.msgs[k].soFar - (IF k = 1 THEN 0 ELSE call.msgs[k - 1].soFar)

\* ---- the context-aware stream wrappers -----------------------------------
\* reader.Read of ContextReader (storage package) and reader.Read /
\* writer.Write of Reader / Writer (main package) are the same three
\* statements.  call.at is the statement the call stands at, call.ctx whether
\* the context is cancelled, call.inner the number of calls of the wrapped
\* stream, call.ierr what the wrapped stream returned.
MaxBuf == 2      \* longest buffer handed to Read/Write

Wrappers == {"storage.reader.Read", "main.reader.Read", "main.writer.Write"}
StreamErrs == {"nil", "EOF", "io"}

\* ctx.Err()
CtxErr(done) == IF done THEN "ctx" ELSE "nil"

\* AfterErr when the wrapper returns after the wrapped call without looking
\* at the context again.
AfterErrUnchecked(done) == "nil"

\* err = r.ctx.Err() after the wrapped call succeeded.
AfterErr(done) == CtxErr(done)

InitStream ==
  /\ SessionIdle
  /\ call \in [fn : Wrappers, len : 1..MaxBuf, ctx : BOOLEAN, at : {"entry"},
               inner : {0}, ierr : {"none"}, n : {0}, err : {"none"},
               cancelled : {"never"}]

\* if err = r.ctx.Err(); err != nil { return }
StreamCheck ==
  /\ call.fn \in Wrappers /\ call.at = "entry"
  /\ call' = IF CtxErr(call.ctx) # "nil"
               THEN [call EXCEPT !.at = "ret", !.err = CtxErr(call.ctx),
                                 !.cancelled = "before"]
               ELSE [call EXCEPT !.at = "inner"]
  /\ UNCHANGED session

\* if n, err = r.r.Read(p); err != nil { return }
StreamInner ==
  /\ call.fn \in Wrappers /\ call.at = "inner"
  /\ \E n \in 0..call.len, e \in StreamErrs :
       call' = [call EXCEPT !.inner = @ + 1, !.n = n, !.ierr = e,
                            !.err = e,
                            !.at = IF e # "nil" THEN "ret" ELSE "after"]
  /\ UNCHANGED session

\* err = r.ctx.Err(); return
StreamRecheck ==
  /\ call.fn \in Wrappers /\ call.at = "after"
  /\ call' = [call EXCEPT !.err = AfterErr(call.ctx), !.at = "ret"]
  /\ UNCHANGED session

\* The context is cancelled while the call is past its first check.
StreamCancel ==
  /\ call.fn \in Wrappers /\ call.at \in {"inner", "after"} /\ ~call.ctx
  /\ call' = [call EXCEPT !.ctx = TRUE, !.cancelled = "during"]
  /\ UNCHANGED session

NextStream == StreamCheck \/ StreamInner \/ StreamRecheck \/ StreamCancel

SpecStream == InitStream /\ [][NextStream]_vars

\* ---- C25 -----------------------------------------------------------------
\* C25: a Read/Write entered with the context already cancelled returns the
\* cancellation error without calling the wrapped stream; a Read/Write during
\* which the context is cancelled and whose wrapped call succeeds returns the
\* cancellation error as well.
C25_CancelledStreamCall ==
  call.fn \in Wrappers /\ call.at = "ret" =>
    /\ call.cancelled = "before" => call.err = "ctx" /\ call.inner = 0 /\ call.n = 0
    /\ call.cancelled = "during" /\ call.ierr = "nil" => call.err = "ctx" /\ call.inner = 1

\* A wrapped Write moved bytes, the context was cancelled meanwhile, and the
\* call has returned.
C25_Witness ==
  /\ call.fn = "main.writer.Write" /\ call.at = "ret"
  /\ call.cancelled = "during" /\ call.ierr = "nil" /\ call.n > 0

\* ---- the FTP backend: one connection per operation -----------------------
\* FTP.Stat / List / Get / Put: connect (Dial, then Login), defer
\* client.Close(), the operation on the ftpclient.  call.open counts the
\* connections ftp.Dial opened and nothing has closed yet, call.login holds
\* the credentials handed to client.Login.

\* u.User of the parsed address: nil (set = FALSE), or a username with or
\* without a password (ok is the second result of u.User.Password()).
UserInfos ==
  {[set |-> FALSE, user |-> "", ok |-> FALSE, pass |-> ""]}
    \cup {ui \in [set : {TRUE}, user : {"", "u"}, ok : BOOLEAN, pass : {"", "p"}] :
            ~ui.ok => ui.pass = ""}

\* FTPConfig.User / Password; DefaultConfig sets both to "anonymous".
FTPConfs == [User : {"anonymous", "cu"}, Password : {"anonymous", "cp"}]

NoLogin == [user |-> "none", pass |-> "none"]

\* connect: the user name handed to Login.
ConnectUser(ui, cf) == IF ui.set THEN ui.user ELSE cf.User

\* ConnectPass when a username without password keeps the configured password.
ConnectPassKeepsDefault(ui, cf) ==
  IF ui.set /\ ui.ok THEN ui.pass ELSE cf.Password

\* connect: the password handed to Login.
ConnectPass(ui, cf) ==
  IF ui.set
    THEN IF ~ui.ok THEN "" ELSE ui.pass
    ELSE cf.Password

InitFTPConn ==
  /\ SessionIdle
  /\ call \in [fn : {"FTP"}, op : Ops, ui : UserInfos, cf : FTPConfs, at : {"dial"},
               open : {0}, login : {NoLogin}, err : {"none"}]

\* connect: client, err := ftp.Dial(host)
FTPDial ==
  /\ call.fn = "FTP" /\ call.at = "dial"
  /\ \E dialed \in BOOLEAN :
       call' = IF dialed
                 THEN [call EXCEPT !.open = @ + 1, !.at = "login"]
                 ELSE [call EXCEPT !.err = "dial", !.at = "ret"]
  /\ UNCHANGED session

\* connect: err = client.Login(user, pass); on an error connect returns
\* nil, err and the operation returns it.
FTPLogin ==
  /\ call.fn = "FTP" /\ call.at = "login"
  /\ \E loggedIn \in BOOLEAN :
       call' = [call EXCEPT
                  !.login = [user |-> ConnectUser(call.ui, call.cf),
                             pass |-> ConnectPass(call.ui, call.cf)],
                  !.err = IF loggedIn THEN "none" ELSE "login",
                  !.at = IF loggedIn THEN "op" ELSE "ret"]
  /\ UNCHANGED session

\* return client.Stat / List / Get / Put (...), which may fail or panic.
FTPOperation ==
  /\ call.fn = "FTP" /\ call.at = "op"
  /\ \E e \in {"none", "transfer", "panic"} :
       call' = [call EXCEPT !.err = e, !.at = "deferred"]
  /\ UNCHANGED session

\* The deferred client.Close(): Logout and Quit, which closes the connection.
FTPClose ==
  /\ call.fn = "FTP" /\ call.at = "deferred"
  /\ call' = [call EXCEPT !.open = @ - 1, !.at = "ret"]
  /\ UNCHANGED session

NextFTPConn == FTPDial \/ FTPLogin \/ FTPOperation \/ FTPClose

SpecFTPConn == InitFTPConn /\ [][NextFTPConn]_vars

\* ---- C26 -----------------------------------------------------------------
\* C26 as claimed: when an FTP operation has returned, every connection it
\* opened is closed, whatever the path it returned on.
C26_ConnectionClosedOnReturn ==
  call.fn = "FTP" /\ call.at = "ret" => call.open = 0

\* ---- C27 -----------------------------------------------------------------
\* C27: Login gets the configured user and password when the address has no
\* user info, the embedded user and password when it has both, and the
\* embedded user with an empty password when it has a username only.
C27_LoginCredentials ==
  call.fn = "FTP" /\ call.login # NoLogin =>
    /\ ~call.ui.set =>
         call.login = [user |-> call.cf.User, pass |-> call.cf.Password]
    /\ call.ui.set /\ call.ui.ok =>
         call.login = [user |-> call.ui.user, pass |-> call.ui.pass]
    /\ call.ui.set /\ ~call.ui.ok =>
         call.login = [user |-> call.ui.user, pass |-> ""]

\* A login with the username of the address and no password, under a
\* configuration that has a password.
C27_Witness ==
  /\ call.fn = "FTP" /\ call.at = "ret" /\ call.err = "none"
  /\ call.ui.set /\ ~call.ui.ok /\ call.ui.user = "u"
  /\ call.cf.Password = "cp"
  /\ call.login = [user |-> "u", pass |-> ""]

\* ---- ftpclient.Put: the directory traversal -------------------------------
\* Put walks the segments of the directory part of the path: ChangeDir, and
\* when that is 'file unavailable' MakeDir and ChangeDir again.  call.tr[k]
\* holds what the server answered for segment k, call.k the segment the walk
\* stands at, call.failedAt the segment Put gave up on (0: none).
MaxSegs == 3     \* segments of the directory path

\* What a command of the FTP client returns: nil, a textproto.Error with code
\* StatusFileUnavailable, or any other error.
FTPResults == {"nil", "unavailable", "other"}

NoSegment == [cd1 |-> "none", mk |-> "none", cd2 |-> "none"]

isUnavailable(e) == e = "unavailable"

\* MakeDirErr when 'file unavailable' from MakeDir stays an error.
MakeDirErrStrict(e) == e

\* err = b.client.MakeDir(dir); if isUnavailable(err) { err = nil }
MakeDirErr(e) == IF isUnavailable(e) THEN "nil" ELSE e

InitFTPPut ==
  /\ SessionIdle
  /\ call \in [fn : {"ftpPut"}, segs : 1..MaxSegs, k : {1}, at : {"cd"},
               tr : {[j \in 1..MaxSegs |-> NoSegment]}, failedAt : {0}, err : {"none"}]

\* The end of one iteration of the loop over the segments with error e.
SegmentDone(c, e) ==
  IF e # "nil"
    THEN [c EXCEPT !.at = "ret", !.err = "chdir", !.failedAt = c.k]
  ELSE IF c.k = c.segs
    THEN [c EXCEPT !.at = "stor"]
    ELSE [c EXCEPT !.at = "cd", !.k = @ + 1]

\* err := b.client.ChangeDir(dir)
PutChangeDir ==
  /\ call.fn = "ftpPut" /\ call.at = "cd"
  /\ \E e \in FTPResults :
       LET c == [call EXCEPT !.tr[call.k].cd1 = e]
       IN call' = IF isUnavailable(e) THEN [c EXCEPT !.at = "mkdir"] ELSE SegmentDone(c, e)
  /\ UNCHANGED session

\* err = b.client.MakeDir(dir), with 'file unavailable' taken for success.
PutMakeDir ==
  /\ call.fn = "ftpPut" /\ call.at = "mkdir"
  /\ \E e \in FTPResults :
       LET c == [call EXCEPT !.tr[call.k].mk = e]
       IN call' = IF MakeDirErr(e) = "nil" THEN [c EXCEPT !.at = "recd"]
                                         ELSE SegmentDone(c, MakeDirErr(e))
  /\ UNCHANGED session

\* if err == nil { err = b.client.ChangeDir(dir) }
PutChangeDirAgain ==
  /\ call.fn = "ftpPut" /\ call.at = "recd"
  /\ \E e \in FTPResults :
       call' = SegmentDone([call EXCEPT !.tr[call.k].cd2 = e], e)
  /\ UNCHANGED session

\* b.client.Stor(name, src), then b.Stat(ctx, url).
PutStor ==
  /\ call.fn = "ftpPut" /\ call.at = "stor"
  /\ \E e \in {"none", "stor", "stat"} :
       call' = [call EXCEPT !.at = "ret", !.err = e]
  /\ UNCHANGED session

NextFTPPut == PutChangeDir \/ PutMakeDir \/ PutChangeDirAgain \/ PutStor

SpecFTPPut == InitFTPPut /\ [][NextFTPPut]_vars

\* ---- C28 -----------------------------------------------------------------
\* The walk is through with segment j.
Walked(j) == j < call.k \/ call.at \in {"stor", "ret"}
\* A ChangeDir into segment j succeeded.
Entered(j) == call.tr[j].cd1 = "nil" \/ call.tr[j].cd2 = "nil"

\* C28: for every segment the walk is through with: when it was missing
\* (ChangeDir: file unavailable) its creation was attempted; when the creation
\* succeeded, or failed with 'file unavailable', it was entered again, and Put
\* goes on when that succeeds; Put gives up on a segment only when no ChangeDir
\* into it succeeded, and goes past a segment only when one did.
C28_DirectoryTraversal ==
  call.fn = "ftpPut" =>
    \A j \in 1..call.k :
      Walked(j) =>
        /\ call.tr[j].cd1 = "unavailable" => call.tr[j].mk # "none"
        /\ call.tr[j].mk \in {"nil", "unavailable"} => call.tr[j].cd2 # "none"
        /\ call.failedAt = j => ~Entered(j)
        /\ call.failedAt # j => Entered(j)

\* Put stored the file after the second segment was found missing, its
\* creation failed with 'file unavailable', and it could then be entered.
C28_Witness ==
  /\ call.fn = "ftpPut" /\ call.at = "ret" /\ call.err = "none" /\ call.segs = 2
  /\ call.tr[2] = [cd1 |-> "unavailable", mk |-> "unavailable", cd2 |-> "nil"]

\* ---- StorageRetrier --------------------------------------------------------
\* StorageRetrier.Stat / List / Get / Put hand the call of the wrapped
\* backend to Retrier.Retry(ctx, f).  The Retrier itself is not part of the
\* sources; its loop is written down here as it is specified: the attempts are
\* bounded, only a BackendError is attempted again, after a backoff delay,
\* and a cancelled context ends the loop at once.
\* call.results holds what the attempts returned, call.seen the number of
\* attempts made when the context was cancelled.
MaxAttempts == 4   \* attempts of one operation

\* The methods of StorageRetrier that go through Retry.
Retried == {"Stat", "List", "Get", "Put"}
\* The methods that call the wrapped backend directly.
Forwarded == {"Join", "UnsupportedOperations"}

ErrorClasses == {"BackendError", "NotFound", "UnsupportedProtocol", "ConfigurationError"}

\* ShouldRetry when every error is attempted again.
ShouldRetryAny(e) == e # "nil"

\* The policy of the Retrier: only BackendError is transient.
ShouldRetry(e) == e = "BackendError"

\* Where Retry goes after an attempt that returned e.
AfterAttempt(c, e) ==
  LET d == [c EXCEPT !.results = Append(@, e)]
  IN IF ShouldRetry(e) /\ Len(d.results) < MaxAttempts
       THEN [d EXCEPT !.at = "backoff"]
       ELSE [d EXCEPT !.at = "ret", !.err = e]

InitRetry ==
  /\ SessionIdle
  /\ call \in [fn : {"Retry"}, op : Retried \cup Forwarded, at : {"first"}, results : {<<>>},
               ctx : {FALSE}, seen : {0}, err : {"none"}]

\* obj, err = r.Backend.Stat(ctx, url) ..., the first attempt.
RetryFirst ==
  /\ call.fn = "Retry" /\ call.at = "first" /\ call.op \in Retried
  /\ \E e \in ErrorClasses \cup {"nil"} : call' = AfterAttempt(call, e)
  /\ UNCHANGED session

\* The backoff delay is over: the next attempt.
RetryAgain ==
  /\ call.fn = "Retry" /\ call.at = "backoff" /\ ~call.ctx
  /\ \E e \in ErrorClasses \cup {"nil"} : call' = AfterAttempt(call, e)
  /\ UNCHANGED session

\* The context is cancelled during the backoff delay.
RetryCancel ==
  /\ call.fn = "Retry" /\ call.at = "backoff" /\ ~call.ctx
  /\ call' = [call EXCEPT !.ctx = TRUE, !.seen = Len(call.results)]
  /\ UNCHANGED session

\* Retry returns the cancellation.
RetryAbort ==
  /\ call.fn = "Retry" /\ call.at = "backoff" /\ call.ctx
  /\ call' = [call EXCEPT !.at = "ret", !.err = "ctx"]
  /\ UNCHANGED session

\* return r.Backend.Join(url, path) / r.Backend.UnsupportedOperations(url)
RetryForward ==
  /\ call.fn = "Retry" /\ call.at = "first" /\ call.op \in Forwarded
  /\ \E e \in {"nil", "BackendError"} :
       call' = [call EXCEPT !.results = <<e>>, !.at = "ret", !.err = e]
  /\ UNCHANGED session

NextRetry == RetryFirst \/ RetryAgain \/ RetryCancel \/ RetryAbort \/ RetryForward

SpecRetry == InitRetry /\ [][NextRetry]_vars

\* ---- C23 -----------------------------------------------------------------
\* C23: every attempt but the last returned a BackendError, so an operation
\* failing with NotFound, UnsupportedProtocol or ConfigurationError is invoked
\* exactly once; no more than the bounded number of attempts is made; and no
\* attempt is made once the context is cancelled.
C23_RetryOnlyTransient ==
  call.fn = "Retry" =>
    /\ \A k \in 1..(Len(call.results) - 1) : call.results[k] = "BackendError"
    /\ Len(call.results) >= 1 /\ call.results[1] \in ErrorClasses \ {"BackendError"}
         => Len(call.results) = 1 /\ call.at = "ret" /\ call.err = call.results[1]
    /\ Len(call.results) <= (IF call.op \in Retried THEN MaxAttempts ELSE 1)
    /\ call.ctx => Len(call.results) = call.seen
    /\ call.ctx /\ call.at = "ret" => call.err = "ctx"

\* A Put was attempted twice, the second attempt ending in NotFound.
C23_Witness ==
  /\ call.fn = "Retry" /\ call.op = "Put" /\ call.at = "ret"
  /\ call.results = <<"BackendError", "NotFound">>

\* ---- ftpclient.List ----------------------------------------------------------
\* The remote tree under the address: a node is a regular file, a link, or a
\* folder with an entry or none under each name.  A path is the sequence of
\* names below the address; ftpJoin(url, r.Name) appends a name to it.
MaxDepth == 2    \* folder levels below the address

NameSeq == <<"a", "b">>
Absent == [kind |-> "none", kids |-> <<>>]

RECURSIVE Nodes(_)
Nodes(d) ==
  {[kind |-> k, kids |-> <<>>] : k \in {"file", "link"}}
    \cup {[kind |-> "folder", kids |-> ks] :
            ks \in (IF d = 0 THEN {[i \in DOMAIN NameSeq |-> Absent]}
                              ELSE [DOMAIN NameSeq -> Nodes(d - 1) \cup {Absent}])}

\* The addresses List is called on: a regular file or a folder.
Roots == {t \in Nodes(MaxDepth) : t.kind \in {"file", "folder"}}

\* b.client.List(u.Path) as the server answers it: the entry of the file
\* itself for a regular file, the entries of a folder in name order, after
\* "." and ".." when the server lists them.  An entry's Size and Time are
\* those of the file at the path it stands for (of).
DotEntries == <<[Name |-> ".", Type |-> "folder", idx |-> 0, of |-> <<".">>],
                [Name |-> "..", Type |-> "folder", idx |-> 0, of |-> <<"..">>]>>

ServerList(node, path, dots) ==
  IF node.kind = "file"
    THEN <<[Name |-> "self", Type |-> "file", idx |-> 0, of |-> path]>>
  ELSE IF node.kind = "folder"
    THEN (IF dots THEN DotEntries ELSE <<>>)
           \o SelectSeq([i \in DOMAIN NameSeq |->
                           [Name |-> NameSeq[i], Type |-> node.kids[i].kind, idx |-> i,
                            of |-> Append(path, NameSeq[i])]],
                        LAMBDA e : e.Type # "none")
    ELSE <<>>

\* SingleFile when the type of the only entry is not looked at.
SingleEntry(resp) == Len(resp) = 1

\* len(resp) == 1 && resp[0].Type == ftp.EntryTypeFile
SingleFile(resp) == Len(resp) = 1 /\ resp[1].Type = "file"

\* ftpclient.List: the special case of a single regular file, then the loop
\* over the entries, with a recursive List for every folder.  path is where
\* on the server the url leads.  An Object has the URL and Name computed from
\* the url, and the Size and LastModified of an entry (Entry).
RECURSIVE ftpclientList(_, _, _, _)
RECURSIVE ListEntries(_, _, _, _, _)
ftpclientList(node, path, url, dots) ==
  LET resp == ServerList(node, path, dots)
  IN IF SingleFile(resp)
       THEN <<[URL |-> url, Name |-> url, Entry |-> resp[1].of]>>
       ELSE ListEntries(node, path, url, dots, resp)

ListEntries(node, path, url, dots, resp) ==
  IF resp = <<>> THEN <<>>
  ELSE LET r == Head(resp)
           rest == ListEntries(node, path, url, dots, Tail(resp))
           joined == Append(url, r.Name)
       IN CASE r.Type = "folder" ->
                 IF r.Name \in {".", ".."}
                   THEN rest
                   ELSE ftpclientList(node.kids[r.idx], Append(path, r.Name), joined, dots)
                          \o rest
            [] r.Type = "link" -> rest
            [] r.Type = "file" ->
                 <<[URL |-> joined, Name |-> joined, Entry |-> r.of]>> \o rest

InitList ==
  /\ SessionIdle
  /\ call \in [fn : {"List"}, tree : Roots, dots : BOOLEAN, step : {0},
               objects : {<<>>}, err : {"none"}]

\* ftpclient.List(ctx, url) on the address.
ListCall ==
  /\ call.fn = "List" /\ call.step = 0
  /\ \E listErr \in BOOLEAN :
       call' = IF listErr
                 THEN [call EXCEPT !.step = 1, !.err = "listing"]
                 ELSE [call EXCEPT !.step = 1, !.err = "nil",
                                   !.objects = ftpclientList(call.tree, <<>>, <<>>, call.dots)]
  /\ UNCHANGED session

NextList == ListCall

SpecList == InitList /\ [][NextList]_vars

\* The paths of the regular files at or under a node.
RECURSIVE Files(_, _)
Files(node, path) ==
  IF node.kind = "file" THEN {path}
  ELSE IF node.kind = "folder"
    THEN UNION {Files(node.kids[i], Append(path, NameSeq[i])) : i \in DOMAIN NameSeq}
    ELSE {}

C31_DownloadOutcome ==
  \A i \in Reqs :
    hist[i].kind = "download" =>
      /\ \A k \in Completes(i) :
           /\ hist[i].stor = "ok" /\ hist[i].local = "ok"
           /\ out[k].path = <<"/", "repo", ".git", "tanker", "tmp", i>>
      /\ Handled(i) /\ hist[i].stor \in {"ok", "err"}
           /\ (hist[i].stor = "err" \/ hist[i].local = "closefail")
           => /\ Completes(i) = {}
              /\ Cardinality(Errors(i)) = 1
              /\ \A k \in Errors(i) :
                   out[k].why = (IF hist[i].stor = "err" THEN "store" ELSE "close")
              /\ hist[i].ret = "nil"
              /\ ~EndedBy(i)
      /\ Handled(i) /\ hist[i].stor = "ok" /\ hist[i].local = "ok"
           => Cardinality(Completes(i)) = 1 /\ Errors(i) = {}

\* Get and the close both failed for the first line's download, and the
\* second line's download was completed.
C31_Witness ==
  /\ hist[1].kind = "download" /\ hist[1].stor = "err" /\ hist[1].local = "closefail"
  /\ Errors(1) # {}
  /\ hist[2].kind = "download" /\ Completes(2) # {}

\* ---- C32 -----------------------------------------------------------------
\* Comms.Input found the input exhausted (Scan() false without an error) and
\* returned a TerminateMessage that no line carried.
EndOfInput ==
  /\ msg.kind = "terminate"
  /\ nread = 0 \/ hist[nread].kind # "terminate"

\* C32 as claimed: once Comms.Input has turned the end of the input into a
\* Terminate message nothing more is sent, and the only step transfer takes is
\* to return nil; when the scanner reports a read error instead, transfer
\* returns an error.
C32_EndOfInputIsTerminate ==
  [][/\ EndOfInput =>
          /\ out' = out
          /\ pc' # pc => pc' = "done" /\ result' = "nil" /\ cause' = "terminate"
     /\ cause' = "scan" => pc' = "done" /\ result' = "err"]_vars

\* ---- Comms.Send, step by step -------------------------------------------------
\* One Upload seen at the grain of Comms.Send: a goroutine is inside Send from
\* the call of c.enc.Encode(msg) until the encoder has written the record.
\* Send takes no lock, and handle does not wait for watchProgress after
\* cancel().  call.h is the position of handle, call.w that of watchProgress,
\* call.tk that of the ticker goroutine, call.inSend the goroutines inside
\* Send, call.wire the records written.
Goroutines == {"handle", "watchProgress"}

InitSend ==
  /\ SessionIdle
  /\ call \in [fn : {"Send"}, size : 0..MaxSize, n : {0}, h : {"put"}, wcancel : {FALSE},
               tk : {"wait"}, w : {"recv"}, p : {0}, pn : {0}, last : {0}, samples : {0},
               inSend : {{}}, wire : {<<>>}]

\* store.Put copies one chunk through the progress reader.
SendPutRead ==
  /\ call.fn = "Send" /\ call.h = "put" /\ call.n < call.size
  /\ call' = [call EXCEPT !.n = @ + 1]
  /\ UNCHANGED session

\* store.Put returns, with an error or at the end of the stream; cancel().
SendPutReturn ==
  /\ call.fn = "Send" /\ call.h = "put"
  /\ \E e \in {"ok", "err"} :
       /\ e = "ok" => call.n = call.size
       /\ call' = [call EXCEPT !.h = e, !.wcancel = TRUE]
  /\ UNCHANGED session

\* handle enters Send through SendError or SendComplete.
SendHandleEnter ==
  /\ call.fn = "Send" /\ call.h \in {"ok", "err"}
  /\ call' = [call EXCEPT !.h = "encode-" \o call.h, !.inSend = @ \cup {"handle"}]
  /\ UNCHANGED session

\* The encoder writes handle's record and Send returns.
SendHandleWrite ==
  /\ call.fn = "Send" /\ call.h \in {"encode-ok", "encode-err"}
  /\ call' = [call EXCEPT
                 !.wire = Append(@, IF call.h = "encode-ok"
                                      THEN CompleteMessage(1, <<>>)
                                      ELSE ErrorMessage(1, "store")),
                 !.inSend = @ \ {"handle"},
                 !.h = "returned"]
  /\ UNCHANGED session

\* progress.NewTicker's goroutine, case <-time.After(d).
SendTick ==
  /\ call.fn = "Send" /\ call.tk = "wait" /\ ~call.wcancel /\ call.samples < MaxTicks
  /\ call' = IF call.w = "recv"
               THEN [call EXCEPT !.samples = @ + 1, !.w = "got", !.p = call.n,
                                 !.tk = IF Complete(call.n, call.size) THEN "closed" ELSE "wait"]
               ELSE [call EXCEPT !.samples = @ + 1, !.tk = "send", !.pn = call.n]
  /\ UNCHANGED session

\* progress.NewTicker's goroutine, case <-ctx.Done().
SendTickExit ==
  /\ call.fn = "Send" /\ call.tk = "wait" /\ call.wcancel
  /\ call' = [call EXCEPT !.tk = "closed",
                          !.w = IF call.w = "recv" THEN "done" ELSE @]
  /\ UNCHANGED session

\* watchProgress enters Send with the sample it received.
SendWatchEnter ==
  /\ call.fn = "Send" /\ call.w = "got"
  /\ call' = [call EXCEPT !.w = "encode", !.inSend = @ \cup {"watchProgress"}]
  /\ UNCHANGED session

\* The encoder writes the Progress record, Send returns, and the loop
\* receives again.
SendWatchWrite ==
  /\ call.fn = "Send" /\ call.w = "encode"
  /\ LET total == WatchTotal(call.p, call.last)
         inc   == WatchInc(call.p, call.last)
         c     == [call EXCEPT !.wire = Append(@, ProgressMessage(1, total, inc)),
                               !.inSend = @ \ {"watchProgress"},
                               !.last = total]
     IN call' = IF call.tk = "send"
                  THEN [c EXCEPT !.w = "got", !.p = call.pn, !.pn = 0,
                                 !.tk = IF Complete(call.pn, call.size) THEN "closed" ELSE "wait"]
                ELSE IF call.tk = "closed"
                  THEN [c EXCEPT !.w = "done", !.p = 0]
                  ELSE [c EXCEPT !.w = "recv", !.p = 0]
  /\ UNCHANGED session

NextSend ==
  \/ SendPutRead
  \/ SendPutReturn
  \/ SendHandleEnter
  \/ SendHandleWrite
  \/ SendTick
  \/ SendTickExit
  \/ SendWatchEnter
  \/ SendWatchWrite

SpecSend == InitSend /\ [][NextSend]_vars

\* ---- C33 -----------------------------------------------------------------
\* C33 as claimed: the handler loop and the progress observer are never
\* inside Comms.Send at the same time.
C33_SendMutuallyExclusive ==
  call.fn = "Send" => Cardinality(call.inSend) <= 1

\* ---- C34 -----------------------------------------------------------------
\* C34 as claimed: every Object a successful List returns has the URL and the
\* Name of the regular file whose entry it was made from: the address itself
\* when the address is a regular file, else the address of the folder listed
\* joined with the entry's name.
C34_ObjectsAddressFiles ==
  call.fn = "List" /\ call.step = 1 /\ call.err = "nil" =>
    \A k \in DOMAIN call.objects :
      /\ call.objects[k].URL = call.objects[k].Entry
      /\ call.objects[k].Name = call.objects[k].Entry

====
